---------------------------- MODULE Spec2Model ----------------------------
(***************************************************************************)
(* scripts/generate-sprite.py: the 6x6 sprite sheet of 64x64 frames.       *)
(*                                                                         *)
(* A raster is a function img[y][x] over 0..H-1 and 0..W-1 whose values    *)
(* are RGBA colours <<r, g, b, a>>.  The ImageDraw object the drawing      *)
(* routines receive is the record [img, log]: img is the raster it draws   *)
(* on and log is the history of the px calls made through it, one entry    *)
(* <<x, y, color>> per call, in call order.                                *)
(*                                                                         *)
(* Three specifications:                                                   *)
(*   Spec      draw_frame(row, col), one step per call statement of its    *)
(*             branch, for every (row, col);                               *)
(*   PrimSpec  sequences of px and rect calls with arbitrary arguments;    *)
(*   SheetSpec the loop of generate_sprite_sheet.                          *)
(***************************************************************************)
EXTENDS Integers, Sequences, FiniteSets

VARIABLES
    row,     \* draw_frame's argument / the loop variable of generate_sprite_sheet
    col,     \* likewise
    pc,      \* draw_frame: number of call statements of the branch already executed
    draw,    \* the ImageDraw object: [img |-> raster, log |-> px calls so far]
    calls,   \* PrimSpec: the px / rect calls made so far, with their arguments
    sheet,   \* generate_sprite_sheet: the sheet raster (<<>> before it is created)
    loop     \* generate_sprite_sheet: position in the loop ("none" outside it)

vars == <<row, col, pc, draw, calls, sheet, loop>>

---------------------------------------------------------------------------
(* Lines 20-22 *)
W == 64
H == 64
COLS == 6
ROWS == 6
SHEET_W == W * COLS
SHEET_H == H * ROWS

(* Lines 25-49: the palette *)
TRANSPARENT == <<0, 0, 0, 0>>
SKIN == <<255, 210, 170, 255>>
SKIN_SHADOW == <<230, 180, 140, 255>>
HAIR == <<90, 60, 40, 255>>
HOODIE == <<100, 130, 200, 255>>
HOODIE_DARK == <<75, 100, 170, 255>>
HOODIE_LIGHT == <<130, 160, 220, 255>>
DESK == <<160, 120, 80, 255>>
DESK_TOP == <<185, 145, 100, 255>>
DESK_DARK == <<130, 95, 65, 255>>
CHAIR == <<90, 90, 110, 255>>
CHAIR_BACK == <<105, 105, 125, 255>>
MONITOR_FRAME == <<70, 75, 95, 255>>
MONITOR_SCREEN == <<30, 45, 75, 255>>
MONITOR_GREEN == <<16, 220, 150, 255>>
MONITOR_BLUE == <<80, 150, 255, 255>>
MONITOR_RED == <<255, 90, 90, 255>>
SCREEN_LINE == <<100, 150, 200, 220>>
EYE_WHITE == <<255, 255, 255, 255>>
EYE_PUPIL == <<40, 30, 25, 255>>
MOUTH == <<200, 120, 100, 255>>
ZZZ == <<170, 190, 240, 230>>
SPARKLE == <<255, 230, 110, 255>>
SWEAT == <<160, 220, 255, 240>>
OUTLINE == <<50, 40, 35, 255>>

(* The colour with its alpha replaced, as the source's tuple unpacking of color[:3] *)
WithAlpha(color, a) == <<color[1], color[2], color[3], a>>

Max(a, b) == IF a >= b THEN a ELSE b
Min(a, b) == IF a <= b THEN a ELSE b

(* Image.new('RGBA', (w, h), TRANSPARENT) *)
NewImage(w, h) == [y \in 0..(h - 1) |-> [x \in 0..(w - 1) |-> TRANSPARENT]]

(* Sequential composition: the statement computing v runs to completion,   *)
(* then the rest of the routine, F, runs on its result                     *)
Then(v, F(_)) == CHOOSE r \in {F(n) : n \in {v}} : TRUE

(* ImageDraw.Draw(img): nothing drawn through it yet *)
NewDraw(img) == [img |-> img, log |-> <<>>]

---------------------------------------------------------------------------
(* Lines 52-62: the primitives *)

(* draw.point((x, y), fill=color) on an RGBA image: the pixel is replaced,  *)
(* nothing is blended                                                       *)
point(img, x, y, color) == [img EXCEPT ![y][x] = color]

(* px without the alpha test of line 54: what C1 must tell apart from px *)
px_without_alpha_test(d, x, y, color) ==
    [img |-> IF 0 <= x /\ x < W /\ 0 <= y /\ y < H
             THEN point(d.img, x, y, color)
             ELSE d.img,
     log |-> Append(d.log, <<x, y, color>>)]

(* Lines 52-55 *)
px(d, x, y, color) ==
    [img |-> IF 0 <= x /\ x < W /\ 0 <= y /\ y < H /\ color[4] > 0
             THEN point(d.img, x, y, color)
             ELSE d.img,
     log |-> Append(d.log, <<x, y, color>>)]

(* Line 61-62: for dx in range(lo, hi): px(draw, x + dx, y, color).  The    *)
(* iterations run in increasing order of dx, each on the result of the one  *)
(* before; the range is split in two only to keep the evaluation shallow.   *)
RECURSIVE rect_dx(_, _, _, _, _, _)
rect_dx(d, x, y, color, lo, hi) ==
    IF hi <= lo THEN d
    ELSE IF hi = lo + 1 THEN px(d, x + lo, y, color)
    ELSE LET mid == (lo + hi) \div 2
         IN  Then(rect_dx(d, x, y, color, lo, mid),
                  LAMBDA n : rect_dx(n, x, y, color, mid, hi))

(* Line 60: for dy in range(lo, hi): the row of w pixels at y + dy *)
RECURSIVE rect_dy(_, _, _, _, _, _, _)
rect_dy(d, x, y, w, color, lo, hi) ==
    IF hi <= lo THEN d
    ELSE IF hi = lo + 1 THEN rect_dx(d, x, y + lo, color, 0, w)
    ELSE LET mid == (lo + hi) \div 2
         IN  Then(rect_dy(d, x, y, w, color, lo, mid),
                  LAMBDA n : rect_dy(n, x, y, w, color, mid, hi))

(* Lines 58-62 *)
rect(d, x, y, w, h, color) == rect_dy(d, x, y, w, color, 0, h)

(* A list of rect calls <<x, y, w, h, color>> made one after the other *)
RECURSIVE rects(_, _)
rects(d, rs) ==
    IF rs = <<>> THEN d
    ELSE Then(rect(d, rs[1][1], rs[1][2], rs[1][3], rs[1][4], rs[1][5]),
              LAMBDA n : rects(n, Tail(rs)))

(* A list of px calls <<x, y, color>> made one after the other *)
RECURSIVE pxs(_, _)
pxs(d, ps) ==
    IF ps = <<>> THEN d
    ELSE Then(px(d, ps[1][1], ps[1][2], ps[1][3]), LAMBDA n : pxs(n, Tail(ps)))

---------------------------------------------------------------------------
(* draw_desk with legs one row too long, past the bottom of the frame *)
draw_desk_longer_legs(d) ==
    rects(d, << <<8, 44, 48, 3, DESK_TOP>>,
                <<8, 47, 48, 8, DESK>>,
                <<8, 47, 48, 1, DESK_DARK>>,
                <<10, 55, 3, 10, DESK_DARK>>,
                <<51, 55, 3, 10, DESK_DARK>> >>)

(* Lines 65-75 *)
draw_desk(d) ==
    rects(d, << <<8, 44, 48, 3, DESK_TOP>>,
                <<8, 47, 48, 8, DESK>>,
                <<8, 47, 48, 1, DESK_DARK>>,
                <<10, 55, 3, 9, DESK_DARK>>,
                <<51, 55, 3, 9, DESK_DARK>> >>)

(* Lines 78-83 *)
draw_chair(d) ==
    rects(d, << <<24, 28, 16, 2, CHAIR_BACK>>,
                <<23, 30, 1, 12, CHAIR_BACK>>,
                <<40, 30, 1, 12, CHAIR_BACK>> >>)

(* Lines 104 and 112: the literal tables, indexed from 0 in the source *)
CHART_Y_OFF == <<3, 2, 4, 1, 3, 2, 5, 3, 1, 2>>
CANDLE_H_VAL == <<4, 6, 3, 7, 5>>

(* Lines 104-108: the body of the chart loop *)
chart_point(d, left_glow, flicker, i) ==
    LET y_off == CHART_Y_OFF[i + 1]
    IN  IF flicker = 1 /\ i % 3 = 0
        THEN d
        ELSE pxs(d, << <<13 + i, 35 + y_off, left_glow>>,
                       <<13 + i, 36 + y_off, WithAlpha(left_glow, 80)>> >>)

(* Lines 112-114: the body of the candle loop *)
candle(d, right_glow, i) ==
    LET h_val == CANDLE_H_VAL[i + 1]
        c == IF h_val > 4 THEN right_glow ELSE WithAlpha(right_glow, 150)
    IN  rect(d, 41 + i * 2, 38 - h_val, 1, h_val, c)

(* Lines 103-108: for i in range(10) *)
RECURSIVE chart_loop(_, _, _, _)
chart_loop(d, left_glow, flicker, i) ==
    IF i >= 10 THEN d
    ELSE Then(chart_point(d, left_glow, flicker, i),
              LAMBDA n : chart_loop(n, left_glow, flicker, i + 1))

(* Lines 111-114: for i in range(5) *)
RECURSIVE candle_loop(_, _, _)
candle_loop(d, right_glow, i) ==
    IF i >= 5 THEN d
    ELSE Then(candle(d, right_glow, i), LAMBDA n : candle_loop(n, right_glow, i + 1))

(* Lines 89-98: the two monitor bodies and stands *)
monitor_bodies(d) ==
    rects(d, << <<11, 30, 14, 12, MONITOR_FRAME>>,
                <<12, 31, 12, 10, MONITOR_SCREEN>>,
                <<16, 42, 4, 2, MONITOR_FRAME>>,
                <<39, 30, 14, 12, MONITOR_FRAME>>,
                <<40, 31, 12, 10, MONITOR_SCREEN>>,
                <<44, 42, 4, 2, MONITOR_FRAME>> >>)

(* Lines 103-114: the chart content of the two screens *)
screen_content(d, left_glow, right_glow, flicker) ==
    Then(chart_loop(d, left_glow, flicker, 0), LAMBDA m : candle_loop(m, right_glow, 0))

(* draw_monitors taking 3, not 2, for 'off': flicker = 2 draws the charts *)
draw_monitors_off_is_3(d, left_glow, right_glow, flicker) ==
    Then(monitor_bodies(d),
         LAMBDA m : IF flicker # 3
                    THEN screen_content(m, left_glow, right_glow, flicker)
                    ELSE m)

(* Lines 86-114 *)
draw_monitors(d, left_glow, right_glow, flicker) ==
    Then(monitor_bodies(d),
         LAMBDA m : IF flicker # 2
                    THEN screen_content(m, left_glow, right_glow, flicker)
                    ELSE m)

---------------------------------------------------------------------------
(* Lines 128-161: the arm pose *)
arm_rects(y, arms) ==
    CASE arms = "desk" ->
            << <<24, 42 + y, 4, 2, HOODIE>>, <<36, 42 + y, 4, 2, HOODIE>>,
               <<23, 42 + y, 2, 2, SKIN>>, <<39, 42 + y, 2, 2, SKIN>> >>
      [] arms = "up" ->
            << <<23, 33 + y, 3, 2, HOODIE>>, <<38, 33 + y, 3, 2, HOODIE>>,
               <<22, 31 + y, 2, 3, HOODIE>>, <<40, 31 + y, 2, 3, HOODIE>>,
               <<22, 30 + y, 2, 2, SKIN>>, <<40, 30 + y, 2, 2, SKIN>> >>
      [] arms = "typing_l" ->
            << <<24, 40 + y, 4, 2, HOODIE>>, <<36, 42 + y, 4, 2, HOODIE>>,
               <<23, 40 + y, 2, 2, SKIN>>, <<39, 42 + y, 2, 2, SKIN>> >>
      [] arms = "typing_r" ->
            << <<24, 42 + y, 4, 2, HOODIE>>, <<36, 40 + y, 4, 2, HOODIE>>,
               <<23, 42 + y, 2, 2, SKIN>>, <<39, 40 + y, 2, 2, SKIN>> >>
      [] arms = "slumped" ->
            << <<22, 43 + y, 6, 2, HOODIE>>, <<36, 43 + y, 6, 2, HOODIE>>,
               <<21, 43 + y, 2, 2, SKIN>>, <<41, 43 + y, 2, 2, SKIN>> >>
      [] OTHER -> << >>

(* Lines 117-161 *)
draw_body_sitting(d, y_off, arms) ==
    LET y == y_off
    IN  Then(rects(d, << <<27, 36 + y, 10, 8, HOODIE>>,
                         <<26, 37 + y, 1, 6, HOODIE_DARK>>,
                         <<37, 37 + y, 1, 6, HOODIE_DARK>>,
                         <<32, 37 + y, 1, 7, HOODIE_DARK>> >>),
             LAMBDA torso : rects(torso, arm_rects(y, arms)))

(* Lines 189-211: the eyes *)
eye_pxs(y, eyes, blink, look_dir) ==
    IF eyes = "open" /\ ~blink THEN
        << <<30 + look_dir, 29 + y, EYE_WHITE>>, <<30 + look_dir, 30 + y, EYE_PUPIL>>,
           <<33 + look_dir, 29 + y, EYE_WHITE>>, <<33 + look_dir, 30 + y, EYE_PUPIL>> >>
    ELSE IF eyes = "closed" \/ blink THEN
        << <<30, 30 + y, OUTLINE>>, <<31, 30 + y, OUTLINE>>,
           <<33, 30 + y, OUTLINE>>, <<34, 30 + y, OUTLINE>> >>
    ELSE IF eyes = "wide" THEN
        << <<30, 29 + y, EYE_WHITE>>, <<31, 29 + y, EYE_WHITE>>,
           <<30, 30 + y, EYE_PUPIL>>, <<31, 30 + y, EYE_WHITE>>,
           <<33, 29 + y, EYE_WHITE>>, <<34, 29 + y, EYE_WHITE>>,
           <<33, 30 + y, EYE_WHITE>>, <<34, 30 + y, EYE_PUPIL>> >>
    ELSE << >>

(* Lines 214-228: the mouth *)
mouth_pxs(y, mouth) ==
    CASE mouth = "smile" ->
            << <<31, 32 + y, MOUTH>>, <<32, 33 + y, MOUTH>>, <<33, 32 + y, MOUTH>> >>
      [] mouth = "open" ->
            << <<31, 32 + y, MOUTH>>, <<32, 32 + y, <<100, 50, 40, 255>> >>,
               <<33, 32 + y, MOUTH>>, <<32, 33 + y, MOUTH>> >>
      [] mouth = "flat" ->
            << <<31, 32 + y, MOUTH>>, <<32, 32 + y, MOUTH>>, <<33, 32 + y, MOUTH>> >>
      [] OTHER -> << >>

(* Lines 164-228 *)
draw_head(d, y_off, eyes, blink, look_dir, mouth) ==
    LET y == y_off
    IN  Then(rects(d, << <<28, 24 + y, 8, 3, HAIR>>,
                         <<28, 26 + y, 8, 9, SKIN>>,
                         <<29, 25 + y, 6, 1, SKIN>>,
                         <<28, 33 + y, 8, 2, SKIN_SHADOW>>,
                         <<27, 24 + y, 10, 3, HOODIE>>,
                         <<26, 26 + y, 2, 4, HOODIE>>,
                         <<36, 26 + y, 2, 4, HOODIE>>,
                         <<28, 24 + y, 8, 1, HOODIE_LIGHT>>,
                         <<28, 26 + y, 2, 2, HAIR>>,
                         <<34, 26 + y, 2, 2, HAIR>> >>),
             LAMBDA face : Then(pxs(face, eye_pxs(y, eyes, blink, look_dir)),
                                LAMBDA n : pxs(n, mouth_pxs(y, mouth))))

---------------------------------------------------------------------------
(* Lines 233-234 *)
ZZZ_OFFSETS == << <<36, 22>>, <<40, 18>>, <<44, 14>> >>
ZZZ_SIZES == <<1, 1, 2>>

(* The visibility test with <= for <: a slot still drawn at f = 3 + i *)
zzz_visible_at_threshold(f, i) == f <= 3 + i

(* Line 237: is slot i drawn at phase f *)
zzz_visible(f, i) == f < 3 + i

(* Lines 236-247: the body of the loop over the slots *)
zzz_slot(d, frame, i) ==
    LET bx == ZZZ_OFFSETS[i + 1][1]
        by == ZZZ_OFFSETS[i + 1][2]
        f == (frame + i) % 6
    IN  IF zzz_visible(f, i)
        THEN LET s == ZZZ_SIZES[Min(i, Len(ZZZ_SIZES) - 1) + 1]
                 alpha == Max(0, 255 - f * 40)
                 color == WithAlpha(ZZZ, alpha)
             IN  IF s = 1
                 THEN px(d, bx, by - f, color)
                 ELSE Then(rect(d, bx, by - f, 3, 1, color),
                      LAMBDA d1 : Then(px(d1, bx + 2, by + 1 - f, color),
                      LAMBDA d2 : rect(d2, bx, by + 2 - f, 3, 1, color)))
        ELSE d

(* Line 235: for i, (bx, by) in enumerate(offsets) *)
RECURSIVE zzz_loop(_, _, _)
zzz_loop(d, frame, i) ==
    IF i >= Len(ZZZ_OFFSETS) THEN d
    ELSE Then(zzz_slot(d, frame, i), LAMBDA n : zzz_loop(n, frame, i + 1))

(* Lines 231-247 *)
draw_zzz(d, frame) == zzz_loop(d, frame, 0)

(* Line 252 *)
SPARKLE_POSITIONS == << <<18, 28>>, <<44, 26>>, <<22, 20>>, <<40, 18>>, <<32, 16>> >>

(* Lines 254-263: the body of the loop over the positions *)
sparkle(d, frame, i) ==
    LET sx == SPARKLE_POSITIONS[i + 1][1]
        sy == SPARKLE_POSITIONS[i + 1][2]
        f == (frame + i * 2) % 6
    IN  IF f < 3
        THEN LET alpha == <<255, 180, 100>>[f + 1]
                 c == WithAlpha(SPARKLE, alpha)
             IN  pxs(d, << <<sx, sy, c>>, <<sx - 1, sy, c>>, <<sx + 1, sy, c>>,
                            <<sx, sy - 1, c>>, <<sx, sy + 1, c>> >>)
        ELSE d

(* Line 253: for i, (sx, sy) in enumerate(positions) *)
RECURSIVE sparkle_loop(_, _, _)
sparkle_loop(d, frame, i) ==
    IF i >= Len(SPARKLE_POSITIONS) THEN d
    ELSE Then(sparkle(d, frame, i), LAMBDA n : sparkle_loop(n, frame, i + 1))

(* Lines 250-263 *)
draw_sparkle(d, frame) == sparkle_loop(d, frame, 0)

(* Line 268 *)
SWEAT_DROPS == << <<26, 28>>, <<38, 27>> >>

(* Lines 270-275: the body of the loop over the drops *)
sweat_drop(d, frame, i) ==
    LET sx == SWEAT_DROPS[i + 1][1]
        sy == SWEAT_DROPS[i + 1][2]
        f == (frame + i * 3) % 6
        dy == f % 3
    IN  IF f < 4
        THEN Then(px(d, sx, sy + dy, SWEAT),
                  LAMBDA d1 : IF dy > 0
                              THEN px(d1, sx, sy + dy - 1, WithAlpha(SWEAT, 100))
                              ELSE d1)
        ELSE d

(* Line 269: for i, (sx, sy) in enumerate(drops) *)
RECURSIVE sweat_loop(_, _, _)
sweat_loop(d, frame, i) ==
    IF i >= Len(SWEAT_DROPS) THEN d
    ELSE Then(sweat_drop(d, frame, i), LAMBDA n : sweat_loop(n, frame, i + 1))

(* Lines 266-275 *)
draw_sweat(d, frame) == sweat_loop(d, frame, 0)

(* Lines 362-364: for i in range(12), the left screen's glow patch *)
RECURSIVE glow_loop(_, _, _)
glow_loop(d, frame, i) ==
    IF i >= 12 THEN d
    ELSE LET alpha == 60 + (frame - 2) * 80
         IN  Then(px(d, 13 + (i % 6), 33 + (i \div 6),
                     WithAlpha(MONITOR_BLUE, Min(alpha, 200))),
                  LAMBDA n : glow_loop(n, frame, i + 1))

(* Lines 371-372: for i in range(6), the right screen's accent line *)
RECURSIVE accent_loop(_, _)
accent_loop(d, i) ==
    IF i >= 6 THEN d
    ELSE Then(px(d, 42 + i, 35, WithAlpha(MONITOR_GREEN, 80)),
              LAMBDA n : accent_loop(n, i + 1))

-----
(* draw_frame, lines 278-382.  Each branch is the list of the call         *)
(* statements it executes, in order, with their arguments evaluated         *)
(* (defaults of the callee's signature filled in); a statement is a record  *)
(* whose fn names the callee.                                               *)

CallDesk == [fn |-> "draw_desk"]
CallChair == [fn |-> "draw_chair"]
CallMonitors(left_glow, right_glow, flicker) ==
    [fn |-> "draw_monitors", left_glow |-> left_glow, right_glow |-> right_glow,
     flicker |-> flicker]
CallBody(y_off, arms) == [fn |-> "draw_body_sitting", y_off |-> y_off, arms |-> arms]
CallHead(y_off, eyes, blink, look_dir, mouth) ==
    [fn |-> "draw_head", y_off |-> y_off, eyes |-> eyes, blink |-> blink,
     look_dir |-> look_dir, mouth |-> mouth]
CallRect(x, y, w, h, color) == [fn |-> "rect", x |-> x, y |-> y, w |-> w, h |-> h, color |-> color]
CallZzz(frame) == [fn |-> "draw_zzz", frame |-> frame]
CallSparkle(frame) == [fn |-> "draw_sparkle", frame |-> frame]
CallSweat(frame) == [fn |-> "draw_sweat", frame |-> frame]
CallGlow(frame) == [fn |-> "glow_loop", frame |-> frame]
CallAccent == [fn |-> "accent_loop"]

(* The idle branch with the blink on frame 4 *)
idle_blink_on_4(frame) ==
    LET breath == <<0, 0, -1, -1, 0, 0>>[frame + 1]
        blink == (frame = 4)
        arm_state == IF frame = 2 THEN "typing_r" ELSE "desk"
    IN  << CallDesk,
           CallMonitors(MONITOR_BLUE, MONITOR_GREEN, 0),
           CallChair,
           CallBody(breath, "desk") >>
        \o (IF arm_state # "desk" THEN << CallBody(breath, arm_state) >> ELSE << >>)
        \o << CallHead(breath, "open", blink, <<0, 0, 1, 0, -1, 0>>[frame + 1], "smile") >>

(* The idle branch with a breathing table that reaches -2 *)
idle_deeper_breath(frame) ==
    LET breath == <<0, -1, -2, -1, 0, 0>>[frame + 1]
        blink == (frame = 3)
        arm_state == IF frame = 2 THEN "typing_r" ELSE "desk"
    IN  << CallDesk,
           CallMonitors(MONITOR_BLUE, MONITOR_GREEN, 0),
           CallChair,
           CallBody(breath, "desk") >>
        \o (IF arm_state # "desk" THEN << CallBody(breath, arm_state) >> ELSE << >>)
        \o << CallHead(breath, "open", blink, <<0, 0, 1, 0, -1, 0>>[frame + 1], "smile") >>

(* Lines 285-297 *)
idle(frame) ==
    LET breath == <<0, 0, -1, -1, 0, 0>>[frame + 1]
        blink == (frame = 3)
        arm_state == IF frame = 2 THEN "typing_r" ELSE "desk"
    IN  << CallDesk,
           CallMonitors(MONITOR_BLUE, MONITOR_GREEN, 0),
           CallChair,
           CallBody(breath, "desk") >>
        \o (IF arm_state # "desk" THEN << CallBody(breath, arm_state) >> ELSE << >>)
        \o << CallHead(breath, "open", blink, <<0, 0, 1, 0, -1, 0>>[frame + 1], "smile") >>

(* Lines 299-307 *)
working(frame) ==
    LET flicker == IF frame \in {2, 5} THEN 1 ELSE 0
        arms == <<"typing_l", "typing_r", "typing_l", "typing_r", "typing_l",
                  "typing_r">>[frame + 1]
        blink == (frame = 4)
    IN  << CallDesk,
           CallMonitors(MONITOR_BLUE, MONITOR_GREEN, flicker),
           CallChair,
           CallBody(0, arms),
           CallHead(0, "open", blink, <<0, 1, 0, -1, 0, 1>>[frame + 1], "smile") >>

(* Lines 309-319 *)
sleeping(frame) ==
    LET head_y == 5
    IN  << CallDesk,
           CallMonitors(MONITOR_BLUE, MONITOR_GREEN, 2),
           CallChair,
           CallBody(1, "slumped"),
           CallRect(28, 30 + head_y, 8, 6, HOODIE),
           CallRect(29, 31 + head_y, 6, 3, SKIN_SHADOW),
           CallRect(27, 29 + head_y, 10, 2, HOODIE_LIGHT),
           CallZzz(frame) >>

(* Lines 321-330 *)
celebrating(frame) ==
    LET breath == <<0, -1, -2, -1, 0, -1>>[frame + 1]
        arms == IF frame \in {1, 2, 3, 4} THEN "up" ELSE "desk"
    IN  << CallDesk,
           CallMonitors(MONITOR_GREEN, MONITOR_GREEN, 0),
           CallChair,
           CallBody(breath, arms),
           CallHead(breath, "open", FALSE, <<0, 0, 1, -1, 0, 0>>[frame + 1],
                IF frame \in {1, 2, 3} THEN "open" ELSE "smile"),
           CallSparkle(frame) >>

(* The worried branch with the eye mode depending on the column *)
worried_eyes_by_column(frame) ==
    LET flicker == IF frame \in {1, 3, 5} THEN 1 ELSE 0
        arms == <<"typing_l", "desk", "typing_r", "desk", "typing_l",
                  "typing_r">>[frame + 1]
    IN  << CallDesk,
           CallMonitors(MONITOR_RED, MONITOR_RED, flicker),
           CallChair,
           CallBody(0, arms),
           CallHead(0, IF frame = 5 THEN "open" ELSE "wide", FALSE,
                <<0, 1, 1, -1, -1, 0>>[frame + 1], "flat"),
           CallSweat(frame) >>

(* Lines 332-341 *)
worried(frame) ==
    LET flicker == IF frame \in {1, 3, 5} THEN 1 ELSE 0
        arms == <<"typing_l", "desk", "typing_r", "desk", "typing_l",
                  "typing_r">>[frame + 1]
    IN  << CallDesk,
           CallMonitors(MONITOR_RED, MONITOR_RED, flicker),
           CallChair,
           CallBody(0, arms),
           CallHead(0, "wide", FALSE, <<0, 1, 1, -1, -1, 0>>[frame + 1], "flat"),
           CallSweat(frame) >>

(* The warmup branch with the mouth open on frame 0 instead of frame 1 *)
warmup_mouth_open_first(frame) ==
    << CallDesk, CallChair >> \o
    (IF frame < 2 THEN
        LET breath == IF frame = 1 THEN -1 ELSE 0
        IN  << CallMonitors(MONITOR_BLUE, MONITOR_GREEN, 2),
               CallBody(breath, "desk"),
               CallHead(breath, IF frame = 0 THEN "closed" ELSE "open", FALSE, 0,
                    IF frame = 0 THEN "open" ELSE "flat") >>
     ELSE IF frame < 4 THEN
        << CallRect(11, 30, 14, 12, MONITOR_FRAME),
           CallRect(12, 31, 12, 10, MONITOR_SCREEN),
           CallRect(16, 42, 4, 2, MONITOR_FRAME) >>
        \o (IF frame >= 2 THEN << CallGlow(frame) >> ELSE << >>)
        \o << CallRect(39, 30, 14, 12, MONITOR_FRAME),
              CallRect(40, 31, 12, 10, MONITOR_SCREEN),
              CallRect(44, 42, 4, 2, MONITOR_FRAME) >>
        \o (IF frame = 3 THEN << CallAccent >> ELSE << >>)
        \o << CallBody(0, "desk"),
              CallHead(0, "open", FALSE, IF frame = 2 THEN -1 ELSE 1, "smile") >>
     ELSE
        << CallMonitors(MONITOR_BLUE, MONITOR_GREEN, 0),
           CallBody(0, IF frame = 4 THEN "desk" ELSE "typing_l"),
           CallHead(0, "open", FALSE, 0, "smile") >>)

(* Lines 343-380 *)
warmup(frame) ==
    << CallDesk, CallChair >> \o
    (IF frame < 2 THEN
        LET breath == IF frame = 1 THEN -1 ELSE 0
        IN  << CallMonitors(MONITOR_BLUE, MONITOR_GREEN, 2),
               CallBody(breath, "desk"),
               CallHead(breath, IF frame = 0 THEN "closed" ELSE "open", FALSE, 0,
                    IF frame = 1 THEN "open" ELSE "flat") >>
     ELSE IF frame < 4 THEN
        << CallRect(11, 30, 14, 12, MONITOR_FRAME),
           CallRect(12, 31, 12, 10, MONITOR_SCREEN),
           CallRect(16, 42, 4, 2, MONITOR_FRAME) >>
        \o (IF frame >= 2 THEN << CallGlow(frame) >> ELSE << >>)
        \o << CallRect(39, 30, 14, 12, MONITOR_FRAME),
              CallRect(40, 31, 12, 10, MONITOR_SCREEN),
              CallRect(44, 42, 4, 2, MONITOR_FRAME) >>
        \o (IF frame = 3 THEN << CallAccent >> ELSE << >>)
        \o << CallBody(0, "desk"),
              CallHead(0, "open", FALSE, IF frame = 2 THEN -1 ELSE 1, "smile") >>
     ELSE
        << CallMonitors(MONITOR_BLUE, MONITOR_GREEN, 0),
           CallBody(0, IF frame = 4 THEN "desk" ELSE "typing_l"),
           CallHead(0, "open", FALSE, 0, "smile") >>)

(* Lines 283-380: the statements draw_frame(row, col) executes *)
statements(r, c) ==
    LET frame == c
    IN  CASE r = 0 -> idle(frame)
          [] r = 1 -> working(frame)
          [] r = 2 -> sleeping(frame)
          [] r = 3 -> celebrating(frame)
          [] r = 4 -> worried(frame)
          [] r = 5 -> warmup(frame)
          [] OTHER -> << >>

(* One call statement executed on the ImageDraw object *)
exec(d, s) ==
    CASE s.fn = "draw_desk" -> draw_desk(d)
      [] s.fn = "draw_chair" -> draw_chair(d)
      [] s.fn = "draw_monitors" -> draw_monitors(d, s.left_glow, s.right_glow, s.flicker)
      [] s.fn = "draw_body_sitting" -> draw_body_sitting(d, s.y_off, s.arms)
      [] s.fn = "draw_head" -> draw_head(d, s.y_off, s.eyes, s.blink, s.look_dir, s.mouth)
      [] s.fn = "rect" -> rect(d, s.x, s.y, s.w, s.h, s.color)
      [] s.fn = "draw_zzz" -> draw_zzz(d, s.frame)
      [] s.fn = "draw_sparkle" -> draw_sparkle(d, s.frame)
      [] s.fn = "draw_sweat" -> draw_sweat(d, s.frame)
      [] s.fn = "glow_loop" -> glow_loop(d, s.frame, 0)
      [] s.fn = "accent_loop" -> accent_loop(d, 0)

(* The statements ss executed in order *)
RECURSIVE run(_, _)
run(d, ss) ==
    IF ss = <<>> THEN d
    ELSE Then(exec(d, ss[1]), LAMBDA n : run(n, Tail(ss)))

(* Lines 278-382: the ImageDraw object when draw_frame returns; its img is  *)
(* the frame returned                                                       *)
draw_frame(r, c) == run(NewDraw(NewImage(W, H)), statements(r, c))

---------------------------------------------------------------------------
(* Spec: draw_frame(row, col), statement by statement *)

Init ==
    /\ row \in 0..(ROWS - 1)
    /\ col \in 0..(COLS - 1)
    /\ pc = 0
    /\ draw = NewDraw(NewImage(W, H))
    /\ calls = << >>
    /\ sheet = << >>
    /\ loop = "none"

(* The call statement draw_frame is about to execute *)
Current == statements(row, col)[pc + 1]

At(fn) ==
    /\ loop = "none"
    /\ pc < Len(statements(row, col))
    /\ Current.fn = fn

Advance ==
    /\ pc' = pc + 1
    /\ UNCHANGED <<row, col, calls, sheet, loop>>

DrawDesk ==
    /\ At("draw_desk")
    /\ draw' = draw_desk(draw)
    /\ Advance

DrawMonitors ==
    /\ At("draw_monitors")
    /\ draw' = draw_monitors(draw, Current.left_glow, Current.right_glow, Current.flicker)
    /\ Advance

DrawChair ==
    /\ At("draw_chair")
    /\ draw' = draw_chair(draw)
    /\ Advance

DrawBodySitting ==
    /\ At("draw_body_sitting")
    /\ draw' = draw_body_sitting(draw, Current.y_off, Current.arms)
    /\ Advance

DrawHead ==
    /\ At("draw_head")
    /\ draw' = draw_head(draw, Current.y_off, Current.eyes, Current.blink,
                         Current.look_dir, Current.mouth)
    /\ Advance

(* A rect call made by draw_frame itself (lines 316-318, 357-359, 367-369) *)
InlineRect ==
    /\ At("rect")
    /\ draw' = rect(draw, Current.x, Current.y, Current.w, Current.h, Current.color)
    /\ Advance

DrawZzz ==
    /\ At("draw_zzz")
    /\ draw' = draw_zzz(draw, Current.frame)
    /\ Advance

DrawSparkle ==
    /\ At("draw_sparkle")
    /\ draw' = draw_sparkle(draw, Current.frame)
    /\ Advance

DrawSweat ==
    /\ At("draw_sweat")
    /\ draw' = draw_sweat(draw, Current.frame)
    /\ Advance

(* Lines 360-364 *)
GlowLoop ==
    /\ At("glow_loop")
    /\ draw' = glow_loop(draw, Current.frame, 0)
    /\ Advance

(* Lines 370-372 *)
AccentLoop ==
    /\ At("accent_loop")
    /\ draw' = accent_loop(draw, 0)
    /\ Advance

Next ==
    \/ DrawDesk
    \/ DrawMonitors
    \/ DrawChair
    \/ DrawBodySitting
    \/ DrawHead
    \/ InlineRect
    \/ DrawZzz
    \/ DrawSparkle
    \/ DrawSweat
    \/ GlowLoop
    \/ AccentLoop

Spec == Init /\ [][Next]_vars

(* draw_frame(row, col) has reached its return statement *)
Returned == loop = "none" /\ pc = Len(statements(row, col))

(* The statements executed so far *)
Executed == SubSeq(statements(row, col), 1, pc)
---------------------------------------------------------------------------
(* PrimSpec: px and rect called with arbitrary arguments, on the 64x64     *)
(* raster, one call after the other                                         *)

MaxCalls == 2

(* Coordinates inside the frame, on its edges and outside it *)
PrimPoints ==
    { <<0, 0>>, <<63, 63>>, <<-1, 0>>, <<0, -1>>, <<64, 63>>, <<63, 64>> }

(* Rectangles <<x, y, w, h>>: inside, straddling an edge, outside, and with *)
(* an empty or negative extent                                              *)
PrimRects ==
    { <<0, 0, 2, 2>>, <<-1, -1, 3, 2>>, <<62, 63, 3, 2>>, <<64, 0, 2, 2>>,
      <<0, 0, -1, 2>>, <<0, 0, 2, 0>> }

(* An opaque colour, a translucent one, and one of alpha 0 *)
PrimColors == { SKIN, SWEAT, TRANSPARENT }

(* The colours rect is called with: an opaque one and one of alpha 0 *)
PrimFills == { SKIN, TRANSPARENT }

PrimInit ==
    /\ row = 0
    /\ col = 0
    /\ pc = 0
    /\ draw = NewDraw(NewImage(W, H))
    /\ calls = << >>
    /\ sheet = << >>
    /\ loop = "none"

PxCall ==
    /\ Len(calls) < MaxCalls
    /\ \E p \in PrimPoints, color \in PrimColors :
          /\ draw' = px(draw, p[1], p[2], color)
          /\ calls' = Append(calls, [fn |-> "px", x |-> p[1], y |-> p[2], w |-> 1, h |-> 1,
                                     color |-> color])
    /\ UNCHANGED <<row, col, pc, sheet, loop>>

RectCall ==
    /\ Len(calls) < MaxCalls
    /\ \E r \in PrimRects, color \in PrimFills :
          /\ draw' = rect(draw, r[1], r[2], r[3], r[4], color)
          /\ calls' = Append(calls, [fn |-> "rect", x |-> r[1], y |-> r[2], w |-> r[3],
                                     h |-> r[4], color |-> color])
    /\ UNCHANGED <<row, col, pc, sheet, loop>>

PrimNext == PxCall \/ RectCall

PrimSpec == PrimInit /\ [][PrimNext]_vars
---------------------------------------------------------------------------
(* SheetSpec: generate_sprite_sheet, lines 385-394 *)

(* sheet.paste(frame, (x0, y0)), no mask: the box of the frame's size whose *)
(* top left corner is (x0, y0) takes the frame's pixels, alpha included;    *)
(* what falls outside the sheet is dropped                                  *)
paste(im, frame, x0, y0) ==
    LET fh == Cardinality(DOMAIN frame)
        fw == Cardinality(DOMAIN frame[0])
    IN  [y \in DOMAIN im |->
            IF y0 <= y /\ y < y0 + fh
            THEN [x \in DOMAIN im[y] |->
                    IF x0 <= x /\ x < x0 + fw THEN frame[y - y0][x - x0] ELSE im[y][x]]
            ELSE im[y]]

(* The paste with row and column exchanged *)
paste_frame_transposed(im, frame, r, c) == paste(im, frame, r * W, c * H)

(* Line 392 *)
paste_frame(im, frame, r, c) == paste(im, frame, c * W, r * H)

(* What draw_frame returns for the first k cells, the cells taken row by   *)
(* row: cell (r, c) is entry r * COLS + c + 1                               *)
RECURSIVE frames_upto(_)
frames_upto(k) ==
    IF k = 0 THEN << >>
    ELSE Append(frames_upto(k - 1), draw_frame((k - 1) \div COLS, (k - 1) % COLS))

(* draw_frame of every cell, computed once *)
FRAMES == frames_upto(ROWS * COLS)

FrameOf(r, c) == FRAMES[r * COLS + c + 1]

(* Lines 387-392: the sheets after 0, 1, ..., k iterations of the loops,    *)
(* the cells taken row by row                                               *)
RECURSIVE sheets_upto(_)
sheets_upto(k) ==
    IF k = 0 THEN << NewImage(SHEET_W, SHEET_H) >>
    ELSE Then(sheets_upto(k - 1),
              LAMBDA ss : Append(ss, paste_frame(ss[k], FRAMES[k].img,
                                                 (k - 1) \div COLS, (k - 1) % COLS)))

(* The sheet after each number of iterations, computed once *)
SHEETS == sheets_upto(ROWS * COLS)

sheet_after(k) == SHEETS[k + 1]

(* The loops are entered at any iteration (row, col), with the sheet the    *)
(* iterations before it have built and the frame of the iteration before;   *)
(* (0, 0) is the state after line 387                                       *)
SheetInit ==
    /\ row \in 0..(ROWS - 1)
    /\ col \in 0..(COLS - 1)
    /\ pc = 0
    /\ calls = << >>
    /\ loop = "draw_frame"
    /\ sheet = sheet_after(row * COLS + col)
    /\ draw = IF row = 0 /\ col = 0
              THEN NewDraw(NewImage(W, H))
              ELSE FRAMES[row * COLS + col]

(* Line 391: frame = draw_frame(row, col) *)
DrawFrame ==
    /\ loop = "draw_frame"
    /\ draw' = draw_frame(row, col)
    /\ loop' = "paste"
    /\ UNCHANGED <<row, col, pc, calls, sheet>>

(* Line 392: sheet.paste(frame, (col * W, row * H)) *)
Paste ==
    /\ loop = "paste"
    /\ sheet' = paste_frame(sheet, draw.img, row, col)
    /\ loop' = "for"
    /\ UNCHANGED <<row, col, pc, draw, calls>>

(* Lines 389-390: the next col of the row, or the first col of the next row *)
ForNext ==
    /\ loop = "for"
    /\ \/ col + 1 < COLS /\ col' = col + 1 /\ row' = row
       \/ col + 1 >= COLS /\ row + 1 < ROWS /\ col' = 0 /\ row' = row + 1
    /\ loop' = "draw_frame"
    /\ UNCHANGED <<pc, draw, calls, sheet>>

(* Line 394: return sheet *)
ReturnSheet ==
    /\ loop = "for"
    /\ col + 1 >= COLS
    /\ row + 1 >= ROWS
    /\ loop' = "return"
    /\ UNCHANGED <<row, col, pc, draw, calls, sheet>>

SheetNext == DrawFrame \/ Paste \/ ForNext \/ ReturnSheet

SheetSpec == SheetInit /\ [][SheetNext]_vars
---------------------------------------------------------------------------
(* What the properties below speak of *)

Pixel(x, y) == draw.img[y][x]
Xs == 0..(W - 1)
Ys == 0..(H - 1)

(* The calls of one routine among the statements executed so far *)
HeadCalls == SelectSeq(Executed, LAMBDA s : s.fn = "draw_head")
BodyCalls == SelectSeq(Executed, LAMBDA s : s.fn = "draw_body_sitting")
MonitorCalls == SelectSeq(Executed, LAMBDA s : s.fn = "draw_monitors")

(* The pixels px calls in the list ps would leave, each still in place *)
AllPresent(ps) == \A k \in 1..Len(ps) : Pixel(ps[k][1], ps[k][2]) = ps[k][3]

(* The colours the chart content of the screens is drawn in *)
ChartColors(left_glow, right_glow) ==
    { left_glow, WithAlpha(left_glow, 80), right_glow, WithAlpha(right_glow, 150) }

(* Neither drawn nor present: a pixel of the line chart or of a candle *)
NoChartContent(left_glow, right_glow) ==
    /\ \A k \in 1..Len(draw.log) : draw.log[k][3] \notin ChartColors(left_glow, right_glow)
    /\ \A y \in Ys, x \in Xs : Pixel(x, y) \notin ChartColors(left_glow, right_glow)

(* The interiors of the two screens, lines 90 and 96 *)
ScreenXs == (12..23) \cup (40..51)
ScreenYs == 31..40

---------------------------------------------------------------------------
(* C1.  After any sequence of px and rect calls on the 64x64 raster, a call *)
(* changes a pixel only if the pixel lies in the frame, is covered by the   *)
(* call (the point of px, the rectangle of rect) and the colour's alpha is  *)
(* not 0; the raster stays 64x64: nothing wraps, nothing fails.             *)
Covers(c, x, y) == c.x <= x /\ x < c.x + c.w /\ c.y <= y /\ y < c.y + c.h

C1_WritesOnlyInsideFrame ==
    [][ Len(calls') = Len(calls) + 1 =>
          LET c == calls'[Len(calls')]
          IN  /\ DOMAIN draw'.img = Ys
              /\ \A y \in Ys : DOMAIN draw'.img[y] = Xs
              /\ \A y \in Ys, x \in Xs :
                    draw'.img[y][x] # draw.img[y][x] =>
                        Covers(c, x, y) /\ c.color[4] # 0 ]_vars

(* A rectangle straddling the corner painted (0,0) and (1,0) only, and a px *)
(* of alpha 0 on (0,0) afterwards left it as it was                         *)
C1_Witness ==
    /\ Len(calls) = 2
    /\ calls[1].fn = "rect" /\ calls[1].x = -1 /\ calls[1].y = -1
    /\ calls[1].w = 3 /\ calls[1].h = 2 /\ calls[1].color = SKIN
    /\ calls[2].fn = "px" /\ calls[2].x = 0 /\ calls[2].y = 0
    /\ calls[2].color = TRANSPARENT
    /\ Len(draw.log) = 7
    /\ \A y \in Ys, x \in Xs :
          Pixel(x, y) = IF y = 0 /\ x \in {0, 1} THEN SKIN ELSE TRANSPARENT

---------------------------------------------------------------------------
(* C2.  When generate_sprite_sheet finishes the sheet is 384x384 and every  *)
(* cell (r, c), the box [64c, 64c+64) x [64r, 64r+64), equals               *)
(* draw_frame(r, c) pixel for pixel, transparent pixels included; no paste  *)
(* changes a pixel of another cell: at every point of the loops the cells   *)
(* already pasted equal their frames and the others are still blank.        *)
Pasted(r, c) ==
    r * COLS + c < row * COLS + col + (IF loop \in {"for", "return"} THEN 1 ELSE 0)

CellIs(r, c, img) ==
    \A y \in 0..(H - 1), x \in 0..(W - 1) : sheet[H * r + y][W * c + x] = img[y][x]

C2_SheetCellsAreFrames ==
    loop # "none" =>
        /\ DOMAIN sheet = 0..383
        /\ \A y \in 0..383 : DOMAIN sheet[y] = 0..383
        /\ \A r \in 0..5, c \in 0..5 :
              CellIs(r, c, IF Pasted(r, c) THEN FrameOf(r, c).img ELSE NewImage(W, H))
        /\ loop = "return" => \A r \in 0..5, c \in 0..5 : Pasted(r, c)

(* The loops are over; the first and the last cell hold their frames, which *)
(* have both drawn and transparent pixels                                   *)
C2_Witness ==
    /\ loop = "return"
    /\ CellIs(0, 0, draw_frame(0, 0).img)
    /\ CellIs(5, 5, draw_frame(5, 5).img)
    /\ sheet[0][0] = TRANSPARENT
    /\ sheet[44][8] = DESK_TOP
    /\ sheet[320 + 44][320 + 8] = DESK_TOP
    /\ sheet[383][383] = TRANSPARENT

---------------------------------------------------------------------------
(* C3, as claimed.  In every finished sleeping frame (row 2) no pixel of    *)
(* the line chart or of a candle is present and every pixel of the two      *)
(* screen interiors (x 12..23 and 40..51, y 31..40) is MONITOR_SCREEN.      *)
C3_Claimed ==
    (Returned /\ row = 2) =>
        /\ NoChartContent(MONITOR_BLUE, MONITOR_GREEN)
        /\ \A y \in ScreenYs, x \in ScreenXs : Pixel(x, y) = MONITOR_SCREEN

(* C3, amended.  In every finished sleeping frame no pixel of the line      *)
(* chart or of a candle is drawn or present, and every pixel of the two     *)
(* screen interiors is MONITOR_SCREEN except the columns x = 23 and x = 40, *)
(* which the chair's side strips, drawn after the monitors, cover with      *)
(* CHAIR_BACK.                                                              *)
C3_SleepingScreensOff ==
    (Returned /\ row = 2) =>
        /\ MonitorCalls = << CallMonitors(MONITOR_BLUE, MONITOR_GREEN, 2) >>
        /\ NoChartContent(MONITOR_BLUE, MONITOR_GREEN)
        /\ \A y \in ScreenYs, x \in ScreenXs :
              Pixel(x, y) = IF x \in {23, 40} THEN CHAIR_BACK ELSE MONITOR_SCREEN

(* A finished sleeping frame, the slumped body and the sleep marks drawn *)
C3_Witness ==
    /\ Returned /\ row = 2 /\ col = 0
    /\ Pixel(12, 31) = MONITOR_SCREEN
    /\ Pixel(51, 40) = MONITOR_SCREEN
    /\ Pixel(23, 35) = CHAIR_BACK
    /\ Pixel(21, 44) = SKIN
    /\ Pixel(36, 22) = WithAlpha(ZZZ, 255)

---------------------------------------------------------------------------
(* C4.  In row 4 (worried), whatever the column, the head is drawn once,    *)
(* with eyes 'wide' and mouth 'flat', and the pixels of the wide eyes and   *)
(* of the flat mouth are still there in the finished frame: the sweat drawn *)
(* afterwards overwrites none of them.                                      *)
WideEyePixels ==
    << <<30, 29, EYE_WHITE>>, <<31, 29, EYE_WHITE>>, <<30, 30, EYE_PUPIL>>,
       <<31, 30, EYE_WHITE>>, <<33, 29, EYE_WHITE>>, <<34, 29, EYE_WHITE>>,
       <<33, 30, EYE_WHITE>>, <<34, 30, EYE_PUPIL>> >>

FlatMouthPixels == << <<31, 32, MOUTH>>, <<32, 32, MOUTH>>, <<33, 32, MOUTH>> >>

C4_WorriedWideAndFlat ==
    (Returned /\ row = 4) =>
        /\ Len(HeadCalls) = 1
        /\ HeadCalls[1].eyes = "wide"
        /\ HeadCalls[1].mouth = "flat"
        /\ ~HeadCalls[1].blink
        /\ AllPresent(WideEyePixels)
        /\ AllPresent(FlatMouthPixels)

(* A finished worried frame with a sweat drop and its trailing pixel *)
C4_Witness ==
    /\ Returned /\ row = 4 /\ col = 1
    /\ Executed[Len(Executed)].fn = "draw_sweat"
    /\ Pixel(26, 29) = SWEAT
    /\ Pixel(26, 28) = WithAlpha(SWEAT, 100)
    /\ AllPresent(WideEyePixels)

---------------------------------------------------------------------------
(* C5, as claimed.  Row 0 (idle), column 3: the head is drawn with eyes     *)
(* open, not blinking, and body and head use breathing offset 0.            *)
C5_Claimed ==
    (Returned /\ row = 0 /\ col = 3) =>
        /\ Len(HeadCalls) = 1
        /\ HeadCalls[1].eyes = "open" /\ ~HeadCalls[1].blink
        /\ HeadCalls[1].y_off = 0
        /\ \A k \in 1..Len(BodyCalls) : BodyCalls[k].y_off = 0

(* C5, amended.  Row 0 (idle), column 3: the head is drawn blinking (eyes   *)
(* 'open' with blink set, so the four closed-eye pixels are drawn and no    *)
(* eye white), and body and head use breathing offset -1.                   *)
C5_IdleColumn3Blinks ==
    (Returned /\ row = 0 /\ col = 3) =>
        /\ Len(HeadCalls) = 1
        /\ HeadCalls[1].eyes = "open" /\ HeadCalls[1].blink
        /\ HeadCalls[1].y_off = -1
        /\ Len(BodyCalls) = 1 /\ BodyCalls[1].y_off = -1
        /\ AllPresent(<< <<30, 29, OUTLINE>>, <<31, 29, OUTLINE>>,
                         <<33, 29, OUTLINE>>, <<34, 29, OUTLINE>> >>)
        /\ \A y \in Ys, x \in Xs : Pixel(x, y) # EYE_WHITE
        /\ Pixel(28, 23) = HOODIE_LIGHT

(* The finished frame of row 0, column 3 *)
C5_Witness ==
    /\ Returned /\ row = 0 /\ col = 3
    /\ Executed[Len(Executed)].fn = "draw_head"
    /\ Pixel(30, 29) = OUTLINE
    /\ Pixel(32, 32) = MOUTH

---------------------------------------------------------------------------
(* C6, as claimed.  Row 5 (warmup): column 0 has eyes closed and mouth      *)
(* open, column 1 eyes open and mouth flat; both have the monitors off.     *)
C6_Claimed ==
    (Returned /\ row = 5 /\ col \in {0, 1}) =>
        /\ Len(HeadCalls) = 1
        /\ HeadCalls[1].eyes = (IF col = 0 THEN "closed" ELSE "open")
        /\ HeadCalls[1].mouth = (IF col = 0 THEN "open" ELSE "flat")
        /\ MonitorCalls = << CallMonitors(MONITOR_BLUE, MONITOR_GREEN, 2) >>
        /\ NoChartContent(MONITOR_BLUE, MONITOR_GREEN)

(* C6, amended.  Row 5 (warmup): column 0 has eyes closed and mouth flat,   *)
(* column 1 eyes open and mouth open; both have the monitors off (no chart  *)
(* content drawn or present).                                               *)
C6_WarmupStretch ==
    (Returned /\ row = 5 /\ col \in {0, 1}) =>
        /\ Len(HeadCalls) = 1
        /\ ~HeadCalls[1].blink
        /\ HeadCalls[1].eyes = (IF col = 0 THEN "closed" ELSE "open")
        /\ HeadCalls[1].mouth = (IF col = 0 THEN "flat" ELSE "open")
        /\ IF col = 0
           THEN AllPresent(<< <<30, 30, OUTLINE>>, <<31, 30, OUTLINE>>,
                              <<33, 30, OUTLINE>>, <<34, 30, OUTLINE>>,
                              <<31, 32, MOUTH>>, <<32, 32, MOUTH>>, <<33, 32, MOUTH>>,
                              <<32, 33, SKIN_SHADOW>> >>)
           ELSE AllPresent(<< <<30, 28, EYE_WHITE>>, <<30, 29, EYE_PUPIL>>,
                              <<33, 28, EYE_WHITE>>, <<33, 29, EYE_PUPIL>>,
                              <<31, 31, MOUTH>>, <<32, 31, <<100, 50, 40, 255>> >>,
                              <<33, 31, MOUTH>>, <<32, 32, MOUTH>> >>)
        /\ MonitorCalls = << CallMonitors(MONITOR_BLUE, MONITOR_GREEN, 2) >>
        /\ NoChartContent(MONITOR_BLUE, MONITOR_GREEN)

(* The finished frame of row 5, column 1 *)
C6_Witness ==
    /\ Returned /\ row = 5 /\ col = 1
    /\ Executed[Len(Executed)].fn = "draw_head"
    /\ Pixel(32, 31) = <<100, 50, 40, 255>>
    /\ Pixel(12, 31) = MONITOR_SCREEN

---------------------------------------------------------------------------
(* The px calls of sleep-mark slot i: those in the colour of ZZZ, whatever  *)
(* the alpha, in the columns of the slot (36; 40; 44..46)                   *)
SlotXs(i) == IF i = 2 THEN 44..46 ELSE {ZZZ_OFFSETS[i + 1][1]}

SlotCalls(i) ==
    { k \in 1..Len(draw.log) :
        /\ WithAlpha(draw.log[k][3], 0) = WithAlpha(ZZZ, 0)
        /\ draw.log[k][1] \in SlotXs(i) }

(* Slot i is drawn at height by - f with alpha max(0, 255 - 40 f) *)
SlotDrawnAt(i, f) ==
    LET bx == ZZZ_OFFSETS[i + 1][1]
        by == ZZZ_OFFSETS[i + 1][2]
        color == WithAlpha(ZZZ, Max(0, 255 - 40 * f))
    IN  /\ SlotCalls(i) # {}
        /\ \A k \in SlotCalls(i) :
              /\ draw.log[k][3] = color
              /\ draw.log[k][2] \in (by - f)..(by - f + 2)
        /\ \E k \in SlotCalls(i) : draw.log[k][1] = bx /\ draw.log[k][2] = by - f
        /\ Pixel(bx, by - f) = color

(* C7, as claimed.  For every frame and slot i, with f = (frame + i) mod 6, *)
(* the slot is drawn whenever f does not exceed 3 + i and hidden only once  *)
(* f exceeds 3 + i.                                                         *)
C7_Claimed ==
    (Returned /\ row = 2) =>
        \A i \in 0..2 :
            LET f == (col + i) % 6
            IN  IF f <= 3 + i THEN SlotDrawnAt(i, f) ELSE SlotCalls(i) = {}

(* C7, amended.  For every frame and slot i, with f = (frame + i) mod 6,    *)
(* the slot is drawn at height y - f with alpha max(0, 255 - 40 f) whenever *)
(* f is below 3 + i, and is hidden once f reaches 3 + i.                    *)
C7_SleepMarkVisibility ==
    (Returned /\ row = 2) =>
        \A i \in 0..2 :
            LET f == (col + i) % 6
            IN  IF f < 3 + i THEN SlotDrawnAt(i, f) ELSE SlotCalls(i) = {}

(* Frame 3 of the sleeping row: slot 0 is at phase 3 and hidden, slot 1 at  *)
(* phase 4 and hidden, slot 2 at phase 5 and hidden                         *)
C7_Witness ==
    /\ Returned /\ row = 2 /\ col = 3
    /\ Executed[Len(Executed)].fn = "draw_zzz"
    /\ \A i \in 0..2 : SlotCalls(i) = {} /\ (col + i) % 6 = 3 + i

---------------------------------------------------------------------------
(* The idle branch with the body drawn once, in the final arm pose: the     *)
(* statements of draw_frame(0, c) without the first of two body calls       *)
IdleDrawnOnce(c) ==
    LET ss == statements(0, c)
    IN  IF ss[5].fn = "draw_body_sitting" THEN SubSeq(ss, 1, 3) \o SubSeq(ss, 5, Len(ss))
        ELSE ss

(* C8.  The idle frame of column 2, whose body is drawn with 'desk' and     *)
(* then again with 'typing_r' at the same offset, equals pixel for pixel    *)
(* the frame with the body drawn once with 'typing_r'; in every other idle  *)
(* column the body is drawn once, with 'desk'.                              *)
C8_DoubleDrawEqualsSingleDraw ==
    (Returned /\ row = 0) =>
        IF col = 2
        THEN /\ Len(BodyCalls) = 2
             /\ BodyCalls[1].arms = "desk" /\ BodyCalls[2].arms = "typing_r"
             /\ BodyCalls[1].y_off = BodyCalls[2].y_off
             /\ draw.img = run(NewDraw(NewImage(W, H)), IdleDrawnOnce(2)).img
        ELSE Len(BodyCalls) = 1 /\ BodyCalls[1].arms = "desk"

---------------------------------------------------------------------------
(* The breathing offset of idle column c: the y_off of its head call *)
IdleOffset(c) == SelectSeq(statements(0, c), LAMBDA s : s.fn = "draw_head")[1].y_off

IdleOffsetRange ==
    CHOOSE n \in 0..H :
        \E lo \in 0..5, hi \in 0..5 :
            /\ n = IdleOffset(hi) - IdleOffset(lo)
            /\ \A c \in 0..5 : IdleOffset(lo) <= IdleOffset(c) /\ IdleOffset(c) <= IdleOffset(hi)

IdleRowBut(range) ==
    (Returned /\ row = 0) =>
        /\ Len(HeadCalls) = 1
        /\ HeadCalls[1].y_off = IdleOffset(col)
        /\ \A k \in 1..Len(BodyCalls) : BodyCalls[k].y_off = IdleOffset(col)
        /\ Pixel(28, 24 + IdleOffset(col)) = HOODIE_LIGHT
        /\ Pixel(28, 23 + IdleOffset(col)) = TRANSPARENT
        /\ IdleOffsetRange = range
        /\ HeadCalls[1].blink <=> (col = 3)
        /\ (\E k \in 1..Len(BodyCalls) : BodyCalls[k].arms = "typing_r") <=> (col = 2)
        /\ \A k \in 1..Len(BodyCalls) : BodyCalls[k].arms \in {"desk", "typing_r"}

(* C9, as claimed.  Over the six columns of the idle row the breathing      *)
(* offset of body and head spans 2 pixels, the blink is on column 3 only    *)
(* and the raised right hand on column 2 only.                              *)
C9_Claimed == IdleRowBut(2)

(* C9, amended.  Over the six columns of the idle row the breathing offset  *)
(* of body and head spans 1 pixel (it is 0 or -1), the blink is on column 3 *)
(* only and the raised right hand on column 2 only.                         *)
C9_IdleRow == IdleRowBut(1)

(* A finished idle frame at the raised offset, next to one at offset 0 *)
C9_Witness ==
    /\ Returned /\ row = 0 /\ col = 2
    /\ HeadCalls[1].y_off = -1
    /\ IdleOffset(1) = 0
    /\ Pixel(28, 23) = HOODIE_LIGHT
    /\ Pixel(39, 39) = SKIN

---------------------------------------------------------------------------
(* C10.  Every px call made while rendering draw_frame(row, col), for every *)
(* row and column, has its coordinates in the frame and an alpha above 0:   *)
(* the guard of px discards none of them, no shape is clipped.              *)
C10_NoWriteDiscarded ==
    loop = "none" =>
        \A k \in 1..Len(draw.log) :
            /\ draw.log[k][1] \in Xs
            /\ draw.log[k][2] \in Ys
            /\ draw.log[k][3][4] > 0

(* A finished sleeping frame whose top sleep mark is at its highest and     *)
(* faintest, with the desk legs down to the last row of the frame           *)
C10_Witness ==
    /\ Returned /\ row = 2 /\ col = 2
    /\ \E k \in 1..Len(draw.log) : draw.log[k] = <<44, 10, WithAlpha(ZZZ, 95)>>
    /\ \E k \in 1..Len(draw.log) : draw.log[k] = <<53, 63, DESK_DARK>>
    /\ Len(draw.log) > 1000
====
